---- MODULE Spec2Model ----
(***************************************************************************)
(* Least-response-time load balancer with a per-client, per-method token   *)
(* bucket rate limiter.                                                    *)
(*                                                                         *)
(*   internal/balancer    LoadBalancer: AddBackend, NextBackend, ServeHTTP *)
(*   internal/ratelimiter MethodRateLimiter: Allow                         *)
(*   cmd/main.go          the HTTP handler: Allow, then ServeHTTP          *)
(*                                                                         *)
(* Durations are integers in milliseconds.  Token counts are integers in   *)
(* units of 1/TokenUnit token and the refill rate is in those units per    *)
(* clock tick, so fractional token counts occur; float64 rounding is not   *)
(* modelled.                                                               *)
(***************************************************************************)
EXTENDS Integers, Sequences, FiniteSets, TLC

VARIABLES
    backends,   \* LoadBalancer.backends: sequence of Backend
    store,      \* the Redis hash "backends": field -> string
    extOps,     \* number of writes other clients of the store have made
    req,        \* the in-flight calls: slot -> record
    rate,       \* MethodRateLimiter.rate  (token units per tick)
    burst,      \* MethodRateLimiter.burst (tokens)
    tokens,     \* MethodRateLimiter.tokens: key -> token units
    last,       \* MethodRateLimiter.last: key -> time
    now,        \* the clock read by time.Now()
    calls,      \* number of Allow calls made so far
    hlog        \* per bucket key, the time, outcome and caller of each Allow call

vars == <<backends, store, extOps, req, rate, burst, tokens, last, now, calls, hlog>>
lbVars == <<backends, store, extOps>>
rlVars == <<rate, burst, tokens, last, now, calls, hlog>>

----------------------------------------------------------------------------
(* Bounds of the model *)

MaxBackends == 2
MaxExt == 1
MaxTime == 2
MaxCalls == 3
MaxBurst == 2
MaxRate == 2

(* One token, in token units *)
TokenUnit == 2

Slots == {"r1", "r2"}

----------------------------------------------------------------------------
(* net/url: url.Parse and URL.String on the strings the model uses.        *)
(* Parse lower-cases the scheme and rejects ":bad" (missing protocol       *)
(* scheme).                                                                *)

RawURLs == {"http://a", "HTTP://a", "http://b", ":bad"}

NilURL == [Scheme |-> "", Host |-> ""]

URLParse(urlStr) ==
    CASE urlStr = "http://a" -> [url |-> [Scheme |-> "http", Host |-> "a"], err |-> FALSE]
      [] urlStr = "HTTP://a" -> [url |-> [Scheme |-> "http", Host |-> "a"], err |-> FALSE]
      [] urlStr = "http://b" -> [url |-> [Scheme |-> "http", Host |-> "b"], err |-> FALSE]
      [] OTHER               -> [url |-> NilURL, err |-> TRUE]

URLString(u) ==
    IF u.Scheme = "" THEN u.Host ELSE u.Scheme \o "://" \o u.Host

NewBackend(u) == [URL |-> u]

----------------------------------------------------------------------------
(* time: ParseDuration and Duration.String.  ParseDuration yields the zero *)
(* duration together with an error on a malformed string.                  *)

StoreValues == {"0", "5ms", "10ms", "fast"}
Durations == {5, 10}

ParseDuration(s) ==
    CASE s = "0"    -> [d |-> 0,  err |-> FALSE]
      [] s = "0s"   -> [d |-> 0,  err |-> FALSE]
      [] s = "5ms"  -> [d |-> 5,  err |-> FALSE]
      [] s = "10ms" -> [d |-> 10, err |-> FALSE]
      [] OTHER      -> [d |-> 0,  err |-> TRUE]

DurationString(d) ==
    CASE d = 0  -> "0s"
      [] d = 5  -> "5ms"
      [] d = 10 -> "10ms"

----------------------------------------------------------------------------
(* The shared store *)

StoreKeys == {"http://a", "HTTP://a", "http://b", ""}

HSet(h, field, value) ==
    [k \in DOMAIN h \cup {field} |-> IF k = field THEN value ELSE h[k]]

HDel(h, field) == [k \in DOMAIN h \ {field} |-> h[k]]

EmptyHash == [k \in {} |-> "0"]

(* The orders in which a range over a map of these fields may visit them *)
Orders(S) ==
    {o \in [1 .. Cardinality(S) -> S] : \A i, j \in DOMAIN o : i # j => o[i] # o[j]}

----------------------------------------------------------------------------
(* LoadBalancer.NextBackend *)

ErrNone == ""
ErrNoBackends == "no backends available"
ErrStore == "store error"
ErrNoneSelected == "no backend selected"
ErrNotFound == "backend not found"

NilBackend == [URL |-> [Scheme |-> "nil", Host |-> "nil"]]

(* minResponseTime starts at float64(^uint64(0) >> 1) seconds, above the   *)
(* Seconds() of every Duration: isMax stands for that start value.         *)
InitScan == [isMax |-> TRUE, minResponseTime |-> 0, selectedBackendURL |-> ""]

(* ScanStep with the comparison turned round: keeps the slowest entry *)
ScanStepSlowest(acc, urlStr, responseTimeStr) ==
    LET responseTime == ParseDuration(responseTimeStr).d
    IN  IF acc.isMax \/ responseTime > acc.minResponseTime
        THEN [isMax |-> FALSE, minResponseTime |-> responseTime,
              selectedBackendURL |-> urlStr]
        ELSE acc

(* The body of the range loop for one entry *)
ScanStep(acc, urlStr, responseTimeStr) ==
    LET responseTime == ParseDuration(responseTimeStr).d
    IN  IF acc.isMax \/ responseTime < acc.minResponseTime
        THEN [isMax |-> FALSE, minResponseTime |-> responseTime,
              selectedBackendURL |-> urlStr]
        ELSE acc

RECURSIVE Scan(_, _, _)
Scan(acc, order, responseTimes) ==
    IF order = <<>> THEN acc
    ELSE Scan(ScanStep(acc, Head(order), responseTimes[Head(order)]),
              Tail(order), responseTimes)

(* FindBackend that makes a backend of the selected store field when the   *)
(* registry has none for it                                                *)
FindOrMakeBackend(bs, selectedBackendURL) ==
    LET hits == {i \in 1 .. Len(bs) : URLString(bs[i].URL) = selectedBackendURL}
    IN  IF hits = {}
        THEN [b |-> NewBackend(URLParse(selectedBackendURL).url), err |-> ErrNone]
        ELSE [b |-> bs[CHOOSE i \in hits : \A j \in hits : i <= j], err |-> ErrNone]

(* FindBackend that returns the first backend of the registry whatever     *)
(* field was selected                                                      *)
FindFirstBackend(bs, selectedBackendURL) ==
    [b |-> bs[1], err |-> ErrNone]

(* FindBackend that falls back to the first backend of the registry when   *)
(* the selected field is of no registered backend                          *)
FindBackendOrFirst(bs, selectedBackendURL) ==
    LET hits == {i \in 1 .. Len(bs) : URLString(bs[i].URL) = selectedBackendURL}
    IN  IF hits = {} THEN [b |-> bs[1], err |-> ErrNone]
        ELSE [b |-> bs[CHOOSE i \in hits : \A j \in hits : i <= j], err |-> ErrNone]

(* The lookup loop: the first backend whose URL string is the selected one *)
FindBackend(bs, selectedBackendURL) ==
    LET hits == {i \in 1 .. Len(bs) : URLString(bs[i].URL) = selectedBackendURL}
    IN  IF hits = {} THEN [b |-> NilBackend, err |-> ErrNotFound]
        ELSE [b |-> bs[CHOOSE i \in hits : \A j \in hits : i <= j], err |-> ErrNone]

(* NextBackend without the test for an empty registry *)
NextBackendUnguarded(bs, hgetallOk, responseTimes, order) ==
    IF ~hgetallOk THEN [b |-> NilBackend, err |-> ErrStore]
    ELSE LET acc == Scan(InitScan, order, responseTimes)
         IN  IF acc.selectedBackendURL = ""
             THEN [b |-> NilBackend, err |-> ErrNoneSelected]
             ELSE FindBackend(bs, acc.selectedBackendURL)

NextBackend(bs, hgetallOk, responseTimes, order) ==
    IF Len(bs) = 0 THEN [b |-> NilBackend, err |-> ErrNoBackends]
    ELSE IF ~hgetallOk THEN [b |-> NilBackend, err |-> ErrStore]
    ELSE LET acc == Scan(InitScan, order, responseTimes)
         IN  IF acc.selectedBackendURL = ""
             THEN [b |-> NilBackend, err |-> ErrNoneSelected]
             ELSE FindBackend(bs, acc.selectedBackendURL)

----------------------------------------------------------------------------
(* MethodRateLimiter *)

(* mrl.methods, as NewMethodRateLimiter fills it *)
Methods ==
    {"eth_getChainId", "eth_getBlockNumber", "eth_getBlockByNumber",
     "eth_getBlockReceipts", "eth_getTransactionReceipt"}

(* The values of the query parameter Id, "" when it is absent *)
Ids == {"", "n1", "n2"}

(* Request bodies; {method:m} stands for the JSON object with that method  *)
(* field, {} for an object without one, and "eth_" is not JSON.            *)
Bodies ==
    {"{method:eth_getChainId}", "{method:eth_getBlockNumber}",
     "{method:eth_call}", "{}", "eth_"}

(* json.Unmarshal into requestBody *)
Unmarshal(body) ==
    CASE body = "{method:eth_getChainId}"
           -> [Method |-> "eth_getChainId", err |-> FALSE]
      [] body = "{method:eth_getBlockNumber}"
           -> [Method |-> "eth_getBlockNumber", err |-> FALSE]
      [] body = "{method:eth_call}"
           -> [Method |-> "eth_call", err |-> FALSE]
      [] body = "{}"
           -> [Method |-> "", err |-> FALSE]
      [] OTHER
           -> [Method |-> "", err |-> TRUE]

(* A limiter that limits every method *)
IsLimitedAlways(method) == TRUE

IsLimited(method) == method \in Methods

(* A bucket key made of the client identity alone *)
RateLimitKeyOfClient(nodeId, method) == nodeId

RateLimitKey(nodeId, method) == nodeId \o "-" \o method

Put(m, key, value) ==
    [k \in DOMAIN m \cup {key} |-> IF k = key THEN value ELSE m[k]]

(* A first request that leaves the bucket full *)
FirstTokensFull == burst * TokenUnit

(* The first request of a key: tokens = burst - 1 *)
FirstTokens == burst * TokenUnit - TokenUnit

(* tokens += elapsed * rate, capped at burst *)
Refill(tok, elapsed) ==
    LET t == tok + elapsed * rate
    IN  IF t > burst * TokenUnit THEN burst * TokenUnit ELSE t

(* A locked part that stores the refilled bucket before it denies *)
AllowKeyDenialRefills(key, t) ==
    IF key \notin DOMAIN tokens \/ key \notin DOMAIN last
    THEN [allowed |-> TRUE, err |-> FALSE,
          tokens |-> Put(tokens, key, FirstTokens), last |-> Put(last, key, t)]
    ELSE LET tok == Refill(tokens[key], t - last[key])
         IN  IF tok < TokenUnit
             THEN [allowed |-> FALSE, err |-> FALSE,
                   tokens |-> Put(tokens, key, tok), last |-> Put(last, key, t)]
             ELSE [allowed |-> TRUE, err |-> FALSE,
                   tokens |-> Put(tokens, key, tok - TokenUnit),
                   last |-> Put(last, key, t)]

(* A locked part that sets the last-refill time when it denies *)
AllowKeyDenialTouches(key, t) ==
    IF key \notin DOMAIN tokens \/ key \notin DOMAIN last
    THEN [allowed |-> TRUE, err |-> FALSE,
          tokens |-> Put(tokens, key, FirstTokens), last |-> Put(last, key, t)]
    ELSE LET tok == Refill(tokens[key], t - last[key])
         IN  IF tok < TokenUnit
             THEN [allowed |-> FALSE, err |-> FALSE,
                   tokens |-> tokens, last |-> Put(last, key, t)]
             ELSE [allowed |-> TRUE, err |-> FALSE,
                   tokens |-> Put(tokens, key, tok - TokenUnit),
                   last |-> Put(last, key, t)]

(* The locked part of Allow, for a key, at time t *)
AllowKey(key, t) ==
    IF key \notin DOMAIN tokens \/ key \notin DOMAIN last
    THEN [allowed |-> TRUE, err |-> FALSE,
          tokens |-> Put(tokens, key, FirstTokens), last |-> Put(last, key, t)]
    ELSE LET tok == Refill(tokens[key], t - last[key])
         IN  IF tok < TokenUnit
             THEN [allowed |-> FALSE, err |-> FALSE, tokens |-> tokens, last |-> last]
             ELSE [allowed |-> TRUE, err |-> FALSE,
                   tokens |-> Put(tokens, key, tok - TokenUnit),
                   last |-> Put(last, key, t)]

Bypass == [allowed |-> TRUE, err |-> FALSE, tokens |-> tokens, last |-> last]
Failed == [allowed |-> FALSE, err |-> TRUE, tokens |-> tokens, last |-> last]

(* Allow without the early return for an empty nodeId *)
AllowAnonymousToo(nodeId, body, readOk, t) ==
    IF ~readOk THEN Failed
    ELSE LET reqBody == Unmarshal(body)
         IN  IF reqBody.err THEN Failed
             ELSE IF ~IsLimited(reqBody.Method) THEN Bypass
             ELSE AllowKey(RateLimitKey(nodeId, reqBody.Method), t)

(* MethodRateLimiter.Allow; readOk: ioutil.ReadAll returned no error *)
Allow(nodeId, body, readOk, t) ==
    IF nodeId = "" THEN Bypass
    ELSE IF ~readOk THEN Failed
    ELSE LET reqBody == Unmarshal(body)
         IN  IF reqBody.err THEN Failed
             ELSE IF ~IsLimited(reqBody.Method) THEN Bypass
             ELSE AllowKey(RateLimitKey(nodeId, reqBody.Method), t)

(* The bucket key of a request, "" when Allow reaches no bucket *)
KeyOf(nodeId, body, readOk) ==
    IF nodeId # "" /\ readOk /\ ~Unmarshal(body).err /\ IsLimited(Unmarshal(body).Method)
    THEN RateLimitKey(nodeId, Unmarshal(body).Method)
    ELSE ""

----------------------------------------------------------------------------
(* The calls in flight.  pc is the place the call has reached:             *)
(*   idle, allow (handler entered), serve (ServeHTTP entered),             *)
(*   proxy (backend selected), hset (response written), done.              *)
(* reg and snapshot are the registry and the store contents at the        *)
(* NextBackend call (the call reads the store when the registry is not     *)
(* empty and hgetallOk); they are kept until the call's next step.         *)

(* The locals now, tokens, exists, last, timeExists of a call of Allow *)
NoLocals == [now |-> 0, tokens |-> 0, exists |-> FALSE, last |-> 0, timeExists |-> FALSE]

Idle ==
    [pc |-> "idle", id |-> "", body |-> "", readOk |-> TRUE, rbody |-> "",
     allowed |-> FALSE, allowErr |-> FALSE, log |-> <<>>, status |-> 0,
     reg |-> <<>>, hgetallOk |-> TRUE, snapshot |-> EmptyHash,
     backend |-> NilBackend, err |-> ErrNone, duration |-> 0, wrote |-> "",
     loc |-> NoLocals]

(* LoadBalancer.AddBackend *)
AddBackend(urlStr, hsetOk) ==
    /\ Len(backends) < MaxBackends
    /\ LET p == URLParse(urlStr)
       IN  IF p.err
           THEN UNCHANGED <<backends, store>>
           ELSE /\ backends' = Append(backends, NewBackend(p.url))
                /\ store' = IF hsetOk THEN HSet(store, urlStr, "0") ELSE store
    /\ UNCHANGED <<extOps, req, rlVars>>

(* Another client of the store sets or deletes a field *)
ExternalHSet(field, value) ==
    /\ extOps < MaxExt
    /\ store' = HSet(store, field, value)
    /\ extOps' = extOps + 1
    /\ UNCHANGED <<backends, req, rlVars>>

ExternalHDel(field) ==
    /\ extOps < MaxExt
    /\ field \in DOMAIN store
    /\ store' = HDel(store, field)
    /\ extOps' = extOps + 1
    /\ UNCHANGED <<backends, req, rlVars>>

(* time passes *)
Tick ==
    /\ now < MaxTime
    /\ now' = now + 1
    /\ UNCHANGED <<lbVars, req, rate, burst, tokens, last, calls, hlog>>

(* What one Allow call does to the limiter, and the record of it *)
AllowEffect(nodeId, body, readOk, res) ==
    /\ calls < MaxCalls
    /\ tokens' = res.tokens
    /\ last' = res.last
    /\ calls' = calls + 1
    /\ hlog' = LET key == KeyOf(nodeId, body, readOk)
               IN  IF key = "" THEN hlog
                   ELSE Put(hlog, key,
                            Append(IF key \in DOMAIN hlog THEN hlog[key] ELSE <<>>,
                                   [t |-> now, ok |-> res.allowed, id |-> nodeId,
                                    method |-> Unmarshal(body).Method]))
    /\ UNCHANGED <<rate, burst, now>>

(* A request body is a stream: its bytes, and whether they were consumed *)
NewReader(bytes) == [bytes |-> bytes, consumed |-> FALSE]

(* What a reader of the stream gets from it *)
Remaining(stream) == IF stream.consumed THEN "" ELSE stream.bytes

(* ioutil.ReadAll: the bytes read and the stream it leaves, consumed *)
ReadAll(stream, readOk) ==
    [data |-> IF readOk THEN Remaining(stream) ELSE "",
     err |-> ~readOk,
     stream |-> [stream EXCEPT !.consumed = TRUE]]

(* An Allow that leaves r.Body as ReadAll left it *)
BodyAfterUnrestored(nodeId, body, readOk) ==
    IF nodeId = "" THEN Remaining(NewReader(body))
    ELSE Remaining(ReadAll(NewReader(body), readOk).stream)

(* What r.Body yields after Allow: untouched when Allow returns before    *)
(* reading it, left consumed when ReadAll fails, else a new reader over   *)
(* the bytes ReadAll returned                                             *)
BodyAfter(nodeId, body, readOk) ==
    IF nodeId = "" THEN Remaining(NewReader(body))
    ELSE LET rd == ReadAll(NewReader(body), readOk)
         IN  IF rd.err THEN Remaining(rd.stream)
             ELSE Remaining(NewReader(rd.data))

Called(nodeId, body, readOk, res) ==
    [Idle EXCEPT !.id = nodeId, !.body = body, !.readOk = readOk,
                 !.rbody = BodyAfter(nodeId, body, readOk),
                 !.allowed = res.allowed, !.allowErr = res.err,
                 !.log = <<"Allow">>]

(* A direct call of methodRateLimiter.Allow *)
CallAllow(r, nodeId, body, readOk) ==
    /\ req[r].pc = "idle"
    /\ LET res == Allow(nodeId, body, readOk, now)
       IN  /\ AllowEffect(nodeId, body, readOk, res)
           /\ req' = [req EXCEPT ![r] =
                        [Called(nodeId, body, readOk, res) EXCEPT !.pc = "done"]]
    /\ UNCHANGED lbVars

(* Allow step by step, for calls that run at the same time.  A call is at  *)
(* "lock" when it waits for mrl.mutex, at "read" when it holds it, and at  *)
(* "write" when it has read the clock and the bucket into its locals.      *)
LockedPcs == {"read", "write"}

(* The calls that hold mrl.mutex *)
MutexHolders == {r \in Slots : req[r].pc \in LockedPcs}

(* Allow up to mrl.mutex.Lock(): the returns before the lock end the call *)
AllowBegin(r, nodeId, body, readOk) ==
    /\ req[r].pc = "idle"
    /\ calls < MaxCalls
    /\ calls' = calls + 1
    /\ LET res == Allow(nodeId, body, readOk, now)
           c == Called(nodeId, body, readOk, res)
       IN  req' = [req EXCEPT ![r] =
                     IF KeyOf(nodeId, body, readOk) = ""
                     THEN [c EXCEPT !.pc = "done"]
                     ELSE [c EXCEPT !.pc = "lock", !.allowed = FALSE]]
    /\ UNCHANGED <<lbVars, rate, burst, tokens, last, now, hlog>>

(* A Lock that does not wait for the holder *)
AllowLockFree(r) ==
    /\ req[r].pc = "lock"
    /\ req' = [req EXCEPT ![r].pc = "read"]
    /\ UNCHANGED <<lbVars, rlVars>>

(* mrl.mutex.Lock() *)
AllowLock(r) ==
    /\ req[r].pc = "lock"
    /\ MutexHolders = {}
    /\ req' = [req EXCEPT ![r].pc = "read"]
    /\ UNCHANGED <<lbVars, rlVars>>

(* now := time.Now() and the two map reads *)
AllowRead(r) ==
    /\ req[r].pc = "read"
    /\ LET key == KeyOf(req[r].id, req[r].body, req[r].readOk)
       IN  req' = [req EXCEPT ![r].pc = "write",
                     ![r].loc = [now |-> now,
                                 exists |-> key \in DOMAIN tokens,
                                 tokens |-> IF key \in DOMAIN tokens THEN tokens[key] ELSE 0,
                                 timeExists |-> key \in DOMAIN last,
                                 last |-> IF key \in DOMAIN last THEN last[key] ELSE 0]]
    /\ UNCHANGED <<lbVars, rlVars>>

(* The rest of Allow, from the locals: create the bucket, or refill, test  *)
(* and consume; the deferred Unlock runs at the return                     *)
AllowWrite(r) ==
    /\ req[r].pc = "write"
    /\ LET key == KeyOf(req[r].id, req[r].body, req[r].readOk)
           l == req[r].loc
           tok == Refill(l.tokens, l.now - l.last)
           created == ~l.exists \/ ~l.timeExists
           admitted == created \/ tok >= TokenUnit
       IN  /\ tokens' = IF created THEN Put(tokens, key, FirstTokens)
                        ELSE IF admitted THEN Put(tokens, key, tok - TokenUnit)
                        ELSE tokens
           /\ last' = IF admitted THEN Put(last, key, l.now) ELSE last
           /\ hlog' = Put(hlog, key,
                          Append(IF key \in DOMAIN hlog THEN hlog[key] ELSE <<>>,
                                 [t |-> l.now, ok |-> admitted, id |-> req[r].id,
                                  method |-> Unmarshal(req[r].body).Method]))
           /\ req' = [req EXCEPT ![r].pc = "done", ![r].allowed = admitted]
    /\ UNCHANGED <<lbVars, rate, burst, now, calls>>

(* A handler that logs a denial and goes on to lb.ServeHTTP *)
HandleUngated(r, nodeId, body, readOk) ==
    /\ req[r].pc = "idle"
    /\ LET res == Allow(nodeId, body, readOk, now)
           c == Called(nodeId, body, readOk, res)
       IN  /\ AllowEffect(nodeId, body, readOk, res)
           /\ req' = [req EXCEPT ![r] =
                        IF res.err THEN [c EXCEPT !.pc = "done", !.status = 500]
                        ELSE [c EXCEPT !.pc = "serve"]]
    /\ UNCHANGED lbVars

(* The HTTP handler of main up to the call of lb.ServeHTTP *)
Handle(r, nodeId, body, readOk) ==
    /\ req[r].pc = "idle"
    /\ LET res == Allow(nodeId, body, readOk, now)
           c == Called(nodeId, body, readOk, res)
       IN  /\ AllowEffect(nodeId, body, readOk, res)
           /\ req' = [req EXCEPT ![r] =
                        IF res.err THEN [c EXCEPT !.pc = "done", !.status = 500]
                        ELSE IF ~res.allowed THEN [c EXCEPT !.pc = "done", !.status = 429]
                        ELSE [c EXCEPT !.pc = "serve"]]
    /\ UNCHANGED lbVars

(* lb.ServeHTTP is entered *)
Serve(r) ==
    /\ req[r].pc = "idle"
    /\ req' = [req EXCEPT ![r] = [Idle EXCEPT !.pc = "serve"]]
    /\ UNCHANGED <<lbVars, rlVars>>

(* ServeHTTP up to the proxy call: NextBackend, and 503 when it fails *)
ServeNextBackend(r, hgetallOk, order) ==
    /\ req[r].pc = "serve"
    /\ LET res == NextBackend(backends, hgetallOk, store, order)
           seen == [req[r] EXCEPT !.reg = backends, !.hgetallOk = hgetallOk,
                                  !.snapshot = store,
                                  !.backend = res.b, !.err = res.err,
                                  !.log = Append(@, "NextBackend")]
       IN  req' = [req EXCEPT ![r] =
                    IF res.err # ErrNone
                    THEN [seen EXCEPT !.pc = "done", !.status = 503]
                    ELSE [seen EXCEPT !.pc = "proxy"]]
    /\ UNCHANGED <<lbVars, rlVars>>

(* proxy.ServeHTTP: the backend's answer is written; time.Since(start) *)
ServeProxy(r, statusCode, duration) ==
    /\ req[r].pc = "proxy"
    /\ req' = [req EXCEPT ![r].pc = "hset", ![r].status = statusCode,
                          ![r].duration = duration,
                          ![r].reg = <<>>, ![r].snapshot = EmptyHash,
                          ![r].log = Append(@, "forward")]
    /\ UNCHANGED <<lbVars, rlVars>>

(* A latency write that sets the field of every registered backend *)
ServeHSetAll(r, hsetOk) ==
    /\ req[r].pc = "hset"
    /\ LET field == URLString(req[r].backend.URL)
           fields == {URLString(backends[i].URL) : i \in 1 .. Len(backends)}
       IN  /\ store' = IF hsetOk
                       THEN [k \in DOMAIN store \cup fields |->
                               IF k \in fields THEN DurationString(req[r].duration)
                               ELSE store[k]]
                       ELSE store
           /\ req' = [req EXCEPT ![r].pc = "done", ![r].wrote = field,
                                 ![r].log = Append(@, "HSet")]
    /\ UNCHANGED <<backends, extOps, rlVars>>

(* A latency write that also prunes the fields of no registered backend *)
ServeHSetPrune(r, hsetOk) ==
    /\ req[r].pc = "hset"
    /\ LET field == URLString(req[r].backend.URL)
           fields == {URLString(backends[i].URL) : i \in 1 .. Len(backends)}
       IN  /\ store' = IF hsetOk
                       THEN [k \in (DOMAIN store \cap fields) \cup {field} |->
                               IF k = field THEN DurationString(req[r].duration)
                               ELSE store[k]]
                       ELSE store
           /\ req' = [req EXCEPT ![r].pc = "done", ![r].wrote = field,
                                 ![r].log = Append(@, "HSet")]
    /\ UNCHANGED <<backends, extOps, rlVars>>

(* The latency write after the proxy call; its error is dropped *)
ServeHSet(r, hsetOk) ==
    /\ req[r].pc = "hset"
    /\ LET field == URLString(req[r].backend.URL)
       IN  /\ store' = IF hsetOk
                       THEN HSet(store, field, DurationString(req[r].duration))
                       ELSE store
           /\ req' = [req EXCEPT ![r].pc = "done", ![r].wrote = field,
                                 ![r].log = Append(@, "HSet")]
    /\ UNCHANGED <<backends, extOps, rlVars>>

(* The call has returned; the slot takes the next call *)
Return(r) ==
    /\ req[r].pc = "done"
    /\ req' = [req EXCEPT ![r] = Idle]
    /\ UNCHANGED <<lbVars, rlVars>>

----------------------------------------------------------------------------
Init ==
    /\ backends = <<>>
    /\ store = EmptyHash
    /\ extOps = 0
    /\ req = [r \in Slots |-> Idle]
    /\ rate \in 0 .. MaxRate
    /\ burst \in 0 .. MaxBurst
    /\ tokens = [k \in {} |-> 0]
    /\ last = [k \in {} |-> 0]
    /\ now = 0
    /\ calls = 0
    /\ hlog = [k \in {} |-> <<>>]

(* The balancer alone: calls enter at lb.ServeHTTP *)
InitLB == Init /\ rate = 1 /\ burst = 1

NextLB ==
    \/ \E u \in RawURLs, ok \in BOOLEAN : AddBackend(u, ok)
    \/ \E f \in StoreKeys, v \in StoreValues : ExternalHSet(f, v)
    \/ \E f \in StoreKeys : ExternalHDel(f)
    \/ Serve("r1")
    \/ \E ok \in BOOLEAN, o \in Orders(DOMAIN store) : ServeNextBackend("r1", ok, o)
    \/ \E s \in {200, 502}, d \in Durations : ServeProxy("r1", s, d)
    \/ \E ok \in BOOLEAN : ServeHSet("r1", ok)
    \/ Return("r1")

SpecLB == InitLB /\ [][NextLB]_vars

(* The limiter alone: direct calls of Allow *)
NextRL ==
    \/ \E id \in Ids, b \in Bodies, ok \in BOOLEAN : CallAllow("r1", id, b, ok)
    \/ Return("r1")
    \/ Tick

SpecRL == Init /\ [][NextRL]_vars

(* The limiter under calls that run at the same time, for the same key or  *)
(* for another, or anonymous                                               *)
MuIds == {"", "n1"}
MuBodies == {"{method:eth_getChainId}", "{method:eth_getBlockNumber}"}

NextMu ==
    \/ \E r \in Slots, id \in MuIds, b \in MuBodies : AllowBegin(r, id, b, TRUE)
    \/ \E r \in Slots : AllowLock(r)
    \/ \E r \in Slots : AllowRead(r)
    \/ \E r \in Slots : AllowWrite(r)
    \/ \E r \in Slots : Return(r)
    \/ Tick

SpecMu == Init /\ [][NextMu]_vars

(* The whole program: requests go through the handler of main.  The       *)
(* requests are anonymous, or of client n1 with a limited method or with   *)
(* a body that is not JSON; the bucket holds one token and is not          *)
(* refilled, so a second request of n1 for the method is denied.  No       *)
(* other client writes the store.                                          *)
InitMain == Init /\ rate = 0 /\ burst = 1

MainIds == {"", "n1"}
MainBodies == {"{method:eth_getChainId}", "eth_"}

(* main adds the backends of its list, in order, before it starts to      *)
(* listen; the list of the model has two of them                           *)
MainBackends == <<"http://a", "http://b">>

Listening == calls > 0

MainAddBackend(hsetOk) ==
    /\ ~Listening
    /\ Len(backends) < Len(MainBackends)
    /\ AddBackend(MainBackends[Len(backends) + 1], hsetOk)

Next ==
    \/ \E ok \in BOOLEAN : MainAddBackend(ok)
    \/ \E r \in Slots :
          \/ \E id \in MainIds, b \in MainBodies : Handle(r, id, b, TRUE)
          \/ \E ok \in BOOLEAN, o \in Orders(DOMAIN store) : ServeNextBackend(r, ok, o)
          \/ \E s \in {200, 502}, d \in Durations : ServeProxy(r, s, d)
          \/ \E ok \in BOOLEAN : ServeHSet(r, ok)
          \/ Return(r)

Spec == InitMain /\ [][Next]_vars

----------------------------------------------------------------------------
(* Properties of backend selection, checked under SpecLB *)

Last(seq) == seq[Len(seq)]

(* The call of slot r has just come back from NextBackend *)
JustSelected(r) == req[r].log # <<>> /\ Last(req[r].log) = "NextBackend"

(* NextBackend has just returned a backend to slot r *)
Returned(r) == JustSelected(r) /\ req[r].err = ErrNone

(* NextBackend read the store for slot r *)
ReadStore(r) == JustSelected(r) /\ req[r].reg # <<>> /\ req[r].hgetallOk

(* The latency NextBackend takes a store entry to hold *)
Latency(h, field) == ParseDuration(h[field]).d

Registered(bs, field) == \E i \in 1 .. Len(bs) : URLString(bs[i].URL) = field

(* C1: whenever NextBackend returns a backend, the latency of that         *)
(* backend's entry in the snapshot it read is less than or equal to the    *)
(* latency of every entry of the snapshot.  The latency of an entry is the *)
(* duration NextBackend parses from it.                                    *)
C1_MinimumLatency ==
    \A r \in Slots :
        Returned(r) =>
            LET h == req[r].snapshot
                f == URLString(req[r].backend.URL)
            IN  /\ f \in DOMAIN h
                /\ \A g \in DOMAIN h : Latency(h, f) <= Latency(h, g)

(* A backend was returned from a snapshot of three entries with 5ms for it *)
(* and more for the two others                                             *)
C1_Witness ==
    \E r \in Slots :
        /\ Returned(r)
        /\ LET h == req[r].snapshot
               f == URLString(req[r].backend.URL)
           IN  /\ Cardinality(DOMAIN h) >= 3
               /\ h[f] = "5ms"
               /\ \A g \in DOMAIN h \ {f} : Latency(h, g) > 5

(* C2: a backend that NextBackend returns is an element of the registry's  *)
(* backend sequence at the time of the call.                               *)
C2_ReturnedIsRegistered ==
    \A r \in Slots :
        Returned(r) => \E i \in 1 .. Len(req[r].reg) : req[r].reg[i] = req[r].backend

(* A backend was returned while the store held a field of an endpoint that *)
(* is not registered                                                       *)
C2_Witness ==
    \E r \in Slots :
        /\ Returned(r)
        /\ \E g \in DOMAIN req[r].snapshot :
              g # "" /\ ~URLParse(g).err /\ ~Registered(req[r].reg, g)

(* The snapshot without the entries whose value is no duration *)
Parseable(h) ==
    [f \in {g \in DOMAIN h : ~ParseDuration(h[g]).err} |-> h[f]]

Outcomes(bs, h) ==
    {NextBackend(bs, TRUE, h, o) : o \in Orders(DOMAIN h)}

(* C6: an entry whose value cannot be parsed as a duration counts as       *)
(* absent: what NextBackend returns is a result of selection on the        *)
(* snapshot with those entries removed.                                    *)
C6_UnparseableSkipped ==
    \A r \in Slots :
        ReadStore(r) =>
            [b |-> req[r].backend, err |-> req[r].err]
                \in Outcomes(req[r].reg, Parseable(req[r].snapshot))

(* C7: the AddBackend that registers a backend leaves a zero latency       *)
(* field for its endpoint in the store, whether or not the store write     *)
(* succeeds.                                                               *)
C7_AddWritesRecord ==
    [][Len(backends') > Len(backends) =>
          \E f \in DOMAIN store' :
              /\ ~URLParse(f).err
              /\ URLParse(f).url = backends'[Len(backends')].URL
              /\ store'[f] = "0"]_vars

(* C8: with an empty registry NextBackend fails with "no backends          *)
(* available" and returns no backend, whatever the store holds.            *)
C8_EmptyRegistryFails ==
    \A r \in Slots :
        JustSelected(r) /\ req[r].reg = <<>> =>
            /\ req[r].err = ErrNoBackends
            /\ req[r].backend = NilBackend
            /\ req[r].pc = "done"

(* NextBackend failed so while the store held a latency entry *)
C8_Witness ==
    \E r \in Slots :
        /\ JustSelected(r)
        /\ req[r].reg = <<>>
        /\ req[r].err = ErrNoBackends
        /\ \E f \in DOMAIN req[r].snapshot : ~ParseDuration(req[r].snapshot[f]).err

----------------------------------------------------------------------------
(* Properties of the rate limiter, checked under SpecRL *)

(* The Allow calls for key k made at the instant the bucket was created    *)
(* are a prefix of hlog[k], the clock being monotonic.                     *)
AtCreation(k, i) == hlog[k][i].t = hlog[k][1].t

(* C3: of the requests for one key that arrive with no time between them,  *)
(* the first when the key has no bucket, exactly the first burst are       *)
(* admitted and the next is denied.                                        *)
C3_BurstAdmitted ==
    \A k \in DOMAIN hlog :
        \A i \in 1 .. Len(hlog[k]) :
            AtCreation(k, i) => (hlog[k][i].ok <=> i <= burst)

(* C3 holds of every burst from 1 on *)
C3_BurstAdmittedFromOne == burst >= 1 => C3_BurstAdmitted

(* C4: the token count of every bucket is at least 0 and at most burst *)
C4_TokenBounds ==
    \A k \in DOMAIN tokens : 0 <= tokens[k] /\ tokens[k] <= burst * TokenUnit

(* C4 holds of every burst from 1 on *)
C4_TokenBoundsFromOne == burst >= 1 => C4_TokenBounds

(* Slot r makes an Allow call in this step *)
AllowStep(r) == req[r].pc = "idle" /\ req'[r].pc # "idle"

(* C9: an Allow call with an empty client identity is admitted without     *)
(* error, whatever the body and the buckets, and creates or changes no     *)
(* bucket.                                                                 *)
C9_AnonymousBypass ==
    [][\A r \in Slots :
          AllowStep(r) /\ req'[r].id = "" =>
              /\ req'[r].allowed
              /\ ~req'[r].allowErr
              /\ tokens' = tokens
              /\ last' = last]_vars

(* An anonymous call whose body is not JSON was admitted as the third call *)
(* while a bucket was exhausted                                            *)
C9_Witness ==
    \E r \in Slots :
        /\ req[r].pc = "done"
        /\ req[r].id = ""
        /\ Unmarshal(req[r].body).err
        /\ req[r].allowed
        /\ calls >= 3
        /\ \E k \in DOMAIN tokens : tokens[k] < TokenUnit

(* C10: an Allow call with a client identity whose body holds a method     *)
(* that is not in the limited list is admitted, whatever the buckets, and  *)
(* creates or changes no bucket.                                           *)
C10_UnlimitedMethodBypass ==
    [][\A r \in Slots :
          /\ AllowStep(r)
          /\ req'[r].id # ""
          /\ req'[r].readOk
          /\ ~Unmarshal(req'[r].body).err
          /\ Unmarshal(req'[r].body).Method \notin Methods
          => /\ req'[r].allowed
             /\ ~req'[r].allowErr
             /\ tokens' = tokens
             /\ last' = last]_vars

(* A call of n1 for eth_call was admitted while the bucket of n1 for       *)
(* eth_getChainId was exhausted: its last call was denied                  *)
C10_Witness ==
    \E r \in Slots :
        /\ req[r].pc = "done"
        /\ req[r].id = "n1"
        /\ req[r].body = "{method:eth_call}"
        /\ req[r].allowed
        /\ "n1-eth_getChainId" \in DOMAIN hlog
        /\ ~Last(hlog["n1-eth_getChainId"]).ok
        /\ tokens["n1-eth_getChainId"] < TokenUnit

----------------------------------------------------------------------------
(* Properties of the handler of main, checked under Spec *)

Flow == <<"Allow", "NextBackend", "forward", "HSet">>

(* C5: selection, forwarding and the latency write happen only after Allow *)
(* admitted without error, in the order Allow, NextBackend, forward, write;*)
(* a denied request is answered 429 and an Allow error 500, with none of   *)
(* the three; a NextBackend failure is answered 503 with no forwarding and *)
(* no write.                                                               *)
C5_AdmissionGatesDispatch ==
    \A r \in Slots :
        LET q == req[r]
        IN  /\ Len(q.log) <= Len(Flow)
            /\ q.log = SubSeq(Flow, 1, Len(q.log))
            /\ Len(q.log) >= 2 => q.allowed /\ ~q.allowErr
            /\ q.wrote # "" => q.log = Flow
            /\ q.log # <<>> /\ q.allowErr => q.status = 500 /\ q.log = <<"Allow">>
            /\ q.log # <<>> /\ ~q.allowed /\ ~q.allowErr =>
                  q.status = 429 /\ q.log = <<"Allow">>
            /\ q.err # ErrNone =>
                  q.status = 503 /\ q.log = <<"Allow", "NextBackend">>
            /\ q.status \in {429, 500, 503} => q.pc = "done" /\ q.wrote = ""

(* One request was denied and answered 429 with nothing but the Allow      *)
(* call, while another went through the whole flow and wrote its latency   *)
C5_Witness ==
    \E r1, r2 \in Slots :
        /\ req[r1].pc = "done" /\ req[r1].status = 429 /\ req[r1].log = <<"Allow">>
        /\ req[r2].pc = "done" /\ req[r2].log = Flow /\ req[r2].wrote # ""
        /\ req[r2].allowed

----------------------------------------------------------------------------
(* Further properties of backend selection, checked under SpecLB *)

(* Field f holds the strictly lowest latency of the hash h *)
StrictlyLowest(h, f) ==
    /\ f \in DOMAIN h
    /\ \A g \in DOMAIN h \ {f} : Latency(h, f) < Latency(h, g)

(* C11: each NextBackend call decides from the registry and the store      *)
(* contents it reads alone: when the entry of a registered backend holds   *)
(* the strictly lowest latency of the snapshot, that backend is returned,  *)
(* whatever earlier calls returned.                                        *)
C11_RoutingFollowsStore ==
    \A r \in Slots :
        \A f \in DOMAIN req[r].snapshot :
            /\ ReadStore(r)
            /\ f # ""
            /\ Registered(req[r].reg, f)
            /\ StrictlyLowest(req[r].snapshot, f)
            => Returned(r) /\ URLString(req[r].backend.URL) = f

(* No other client has written the store; http://b holds the 10ms that a   *)
(* request forwarded to it measured, http://a holds 5ms, and the call      *)
(* routes to http://a                                                      *)
C11_Witness ==
    \E r \in Slots :
        /\ Returned(r)
        /\ extOps = 0
        /\ DOMAIN req[r].snapshot = {"http://a", "http://b"}
        /\ req[r].snapshot["http://a"] = "5ms"
        /\ req[r].snapshot["http://b"] = "10ms"
        /\ URLString(req[r].backend.URL) = "http://a"

(* C14: when the entry with the strictly lowest latency is of an endpoint  *)
(* string that matches no backend of the non-empty registry, NextBackend   *)
(* fails: it returns no backend, neither the best registered one nor any   *)
(* other, and the request is answered 503 after that one read.  The error  *)
(* is "backend not found", and "no backend selected" when the field is the *)
(* empty string.                                                           *)
C14_StaleWinnerFails ==
    \A r \in Slots :
        \A f \in DOMAIN req[r].snapshot :
            /\ ReadStore(r)
            /\ ~Registered(req[r].reg, f)
            /\ StrictlyLowest(req[r].snapshot, f)
            => /\ req[r].err = IF f = "" THEN ErrNoneSelected ELSE ErrNotFound
               /\ req[r].backend = NilBackend
               /\ req[r].pc = "done"
               /\ req[r].status = 503
               /\ req[r].log = <<"NextBackend">>

(* NextBackend failed with "backend not found" while the snapshot held the *)
(* entry of a registered backend next to the stale one                     *)
C14_Witness ==
    \E r \in Slots :
        /\ ReadStore(r)
        /\ req[r].err = ErrNotFound
        /\ \E f \in DOMAIN req[r].snapshot :
              /\ ~Registered(req[r].reg, f)
              /\ StrictlyLowest(req[r].snapshot, f)
        /\ \E g \in DOMAIN req[r].snapshot :
              Registered(req[r].reg, g) /\ ~ParseDuration(req[r].snapshot[g]).err

----------------------------------------------------------------------------
(* The latency write, checked under Spec *)

(* The write ServeHTTP issues for the request of slot r *)
LatencyWrite(r) ==
    HSet(store, URLString(req[r].backend.URL), DurationString(req[r].duration))

(* C12: a forwarded request issues one store write, after the forwarding,  *)
(* to the field of the backend selected for it and to no other; the write  *)
(* is not retried, and whether it fails or not the status answered and    *)
(* the registry stay as they are.                                          *)
C12_OneLatencyWrite ==
    [][/\ \A r \in Slots :
            req[r].pc = "hset" /\ req'[r] # req[r] =>
                /\ req'[r].pc = "done"
                /\ req'[r].log = Flow
                /\ store' \in {store, LatencyWrite(r)}
                /\ req'[r].status = req[r].status
                /\ backends' = backends
       /\ store' # store /\ backends' = backends =>
            \E r \in Slots :
                /\ req[r].pc = "hset"
                /\ req'[r].pc = "done"
                /\ store' = LatencyWrite(r)
                /\ \A q \in Slots \ {r} : req'[q] = req[q]]_vars

(* A request forwarded to http://b, which answered 502, has written the    *)
(* 10ms it measured to the field of http://b while the field of http://a   *)
(* holds another value                                                     *)
C12_Witness ==
    \E r \in Slots :
        /\ req[r].pc = "done"
        /\ req[r].log = Flow
        /\ req[r].status = 502
        /\ req[r].wrote = "http://b"
        /\ req[r].duration = 10
        /\ DOMAIN store = {"http://a", "http://b"}
        /\ store["http://b"] = "10ms"
        /\ store["http://a"] # "10ms"

----------------------------------------------------------------------------
(* Frame properties of Allow, checked under SpecRL *)

(* C17: an Allow call that returns denied leaves the token count and the   *)
(* last-refill time of every key, its own included, as they were.          *)
C17_DenialNoEffect ==
    [][\A r \in Slots :
          AllowStep(r) /\ ~req'[r].allowed /\ ~req'[r].allowErr =>
              /\ tokens' = tokens
              /\ last' = last]_vars

(* A call was denied after time had passed since the refill of its bucket, *)
(* at a positive rate: the refill it computed was not stored               *)
C17_Witness ==
    \E r \in Slots :
        /\ req[r].pc = "done"
        /\ ~req[r].allowed
        /\ ~req[r].allowErr
        /\ rate > 0
        /\ LET k == KeyOf(req[r].id, req[r].body, req[r].readOk)
           IN  /\ k \in DOMAIN hlog
               /\ ~Last(hlog[k]).ok
               /\ Last(hlog[k]).t = now
               /\ now > last[k]
               /\ tokens[k] = 0

(* C15: after an Allow call that returns admitted, the body the dispatch   *)
(* reads is the whole original body, whether Allow read it or not.         *)
C15_BodyPreserved ==
    \A r \in Slots :
        req[r].pc # "idle" /\ req[r].allowed => req[r].rbody = req[r].body

(* A call of n1 whose body Allow read to find eth_getChainId was admitted  *)
(* through its bucket and left the body whole                              *)
C15_Witness ==
    \E r \in Slots :
        /\ req[r].pc = "done"
        /\ req[r].allowed
        /\ req[r].id = "n1"
        /\ req[r].body = "{method:eth_getChainId}"
        /\ req[r].rbody = "{method:eth_getChainId}"
        /\ KeyOf(req[r].id, req[r].body, req[r].readOk) \in DOMAIN tokens

----------------------------------------------------------------------------
(* The admitted rate, checked under SpecRL *)

(* The number of admitted calls among the calls i to j for key k *)
AdmittedIn(k, i, j) == Cardinality({n \in i .. j : hlog[k][n].ok})

(* C19: for a burst of at least 1, the calls admitted for one key in an    *)
(* interval of length T are at most burst + rate * T.  An interval that    *)
(* holds admitted calls holds a first and a last one, so the intervals     *)
(* from one call of the key to a later one are enough; counts and products *)
(* are in token units.                                                     *)
C19_RateUpperBound ==
    burst >= 1 =>
        \A k \in DOMAIN hlog :
            \A i \in 1 .. Len(hlog[k]) :
                \A j \in i .. Len(hlog[k]) :
                    AdmittedIn(k, i, j) * TokenUnit
                        <= burst * TokenUnit + rate * (hlog[k][j].t - hlog[k][i].t)

(* A key with burst 1 and a positive rate was admitted, denied one tick    *)
(* later and admitted again after the second tick: the bound is reached    *)
C19_Witness ==
    /\ burst = 1
    /\ rate = 1
    /\ \E k \in DOMAIN hlog :
          /\ Len(hlog[k]) = 3
          /\ hlog[k][1].ok /\ ~hlog[k][2].ok /\ hlog[k][3].ok
          /\ hlog[k][2].t > hlog[k][1].t
          /\ hlog[k][3].t > hlog[k][2].t
          /\ AdmittedIn(k, 1, 3) * TokenUnit
                = burst * TokenUnit + rate * (hlog[k][3].t - hlog[k][1].t)

(* The pairs of a client identity and a limited method *)
Pairs == (Ids \ {""}) \X Methods

(* Two different pairs have different bucket keys *)
KeysDistinct ==
    \A p, q \in Pairs :
        p # q => RateLimitKey(p[1], p[2]) # RateLimitKey(q[1], q[2])

(* C20: two different pairs of client identity and limited method have     *)
(* different buckets; an Allow call for one pair changes the token count   *)
(* and the last-refill time of no other pair, and a call is denied only    *)
(* after an admitted call of its own pair.                                 *)
C20_KeyIsolation ==
    [][/\ KeysDistinct
       /\ \A r \in Slots :
            AllowStep(r) /\ KeyOf(req'[r].id, req'[r].body, req'[r].readOk) # "" =>
                LET id == req'[r].id
                    m == Unmarshal(req'[r].body).Method
                    k == RateLimitKey(id, m)
                IN  /\ \A q \in Pairs \ {<<id, m>>} :
                          LET b == RateLimitKey(q[1], q[2])
                          IN  /\ b \in DOMAIN tokens' <=> b \in DOMAIN tokens
                              /\ b \in DOMAIN last' <=> b \in DOMAIN last
                              /\ b \in DOMAIN tokens => tokens'[b] = tokens[b]
                              /\ b \in DOMAIN last => last'[b] = last[b]
                    /\ ~req'[r].allowed =>
                          /\ k \in DOMAIN hlog
                          /\ \E n \in 1 .. Len(hlog[k]) :
                                /\ hlog[k][n].ok
                                /\ hlog[k][n].id = id
                                /\ hlog[k][n].method = m]_vars

(* After n1 used up its bucket for eth_getChainId and was denied, the      *)
(* third call, of n1 for eth_getBlockNumber, was admitted and left the     *)
(* empty bucket as it was                                                  *)
C20_Witness ==
    /\ calls = 3
    /\ req["r1"].pc = "done"
    /\ req["r1"].id = "n1"
    /\ req["r1"].body = "{method:eth_getBlockNumber}"
    /\ req["r1"].allowed
    /\ DOMAIN tokens = {"n1-eth_getChainId", "n1-eth_getBlockNumber"}
    /\ tokens["n1-eth_getChainId"] = 0
    /\ Len(hlog["n1-eth_getChainId"]) = 2
    /\ ~Last(hlog["n1-eth_getChainId"]).ok
    /\ Len(hlog["n1-eth_getBlockNumber"]) = 1

----------------------------------------------------------------------------
(* Recovery after a denial, checked under SpecRL *)

(* The time of the last admitted call for key k; the first call of a key   *)
(* is admitted, so there is one                                            *)
LastAdmit(k) ==
    LET n == CHOOSE n \in 1 .. Len(hlog[k]) :
                 /\ hlog[k][n].ok
                 /\ \A m \in n + 1 .. Len(hlog[k]) : ~hlog[k][m].ok
    IN  hlog[k][n].t

(* Key k had a request denied *)
WasDenied(k) ==
    k \in DOMAIN hlog /\ \E n \in 1 .. Len(hlog[k]) : ~hlog[k][n].ok

(* Slot r calls Allow for a key that had a request denied, at a time when  *)
(* the stored tokens and the refill since the last admitted call make up   *)
(* a token                                                                 *)
CallAfterWait(r) ==
    /\ AllowStep(r)
    /\ rate > 0
    /\ LET k == KeyOf(req'[r].id, req'[r].body, req'[r].readOk)
       IN  /\ k # ""
           /\ WasDenied(k)
           /\ tokens[k] + (now - LastAdmit(k)) * rate >= TokenUnit

(* C16 as stated: for a positive rate, a request for a key that had a      *)
(* request denied is admitted when stored tokens + elapsed * rate >= 1,    *)
(* the elapsed time counted from the last admitted request.                *)
C16_DenialRecoverable ==
    [][\A r \in Slots : CallAfterWait(r) => req'[r].allowed]_vars

(* C16 amended: the same, for a burst of at least 1.                       *)
C16_DenialRecoverableFromOne ==
    [][\A r \in Slots : burst >= 1 /\ CallAfterWait(r) => req'[r].allowed]_vars

(* With burst 1 and a rate of one token per tick, a key was admitted and   *)
(* denied at one instant and admitted again one tick later                 *)
C16_Witness ==
    /\ burst = 1
    /\ rate = TokenUnit
    /\ \E r \in Slots :
          /\ req[r].pc = "done"
          /\ req[r].allowed
          /\ LET k == KeyOf(req[r].id, req[r].body, req[r].readOk)
             IN  /\ k \in DOMAIN hlog
                 /\ Len(hlog[k]) = 3
                 /\ hlog[k][1].ok /\ ~hlog[k][2].ok /\ hlog[k][3].ok
                 /\ hlog[k][2].t = hlog[k][1].t
                 /\ hlog[k][3].t = hlog[k][1].t + 1

----------------------------------------------------------------------------
(* Stale store entries, checked under SpecLB *)

(* A step of the process, not of another client of the store *)
ProcessStep == extOps' = extOps

(* The process sets field f in this step *)
Writes(f) ==
    /\ f \in DOMAIN store'
    /\ f \notin DOMAIN store \/ store'[f] # store[f]

(* The write is the latency write of a request just forwarded to f *)
DispatchWrite(f) ==
    \E r \in Slots :
        /\ req[r].pc = "hset"
        /\ req'[r].pc = "done"
        /\ f = URLString(req[r].backend.URL)
        /\ store'[f] = DurationString(req[r].duration)

(* The write is the zero entry of AddBackend for the string it registers *)
RegistrationWrite(f) ==
    /\ Len(backends') = Len(backends) + 1
    /\ ~URLParse(f).err
    /\ Last(backends') = NewBackend(URLParse(f).url)
    /\ store'[f] = "0"

(* Slot r calls NextBackend in this step and reads the store *)
NextBackendStep(r) ==
    /\ req[r].pc = "serve"
    /\ req'[r].pc # "serve"
    /\ req'[r].hgetallOk

(* The store holds the strictly lowest latency in the entry of an endpoint *)
(* that is not registered                                                  *)
StaleLowest == \E f \in DOMAIN store : ~Registered(backends, f) /\ StrictlyLowest(store, f)

(* NextBackend fails for slot r with the error of a winner that is not     *)
(* found, and the request ends with 503 and nothing forwarded              *)
FailsNotFound(r) ==
    /\ req'[r].err \in {ErrNotFound, ErrNoneSelected}
    /\ req'[r].backend = NilBackend
    /\ req'[r].pc = "done"
    /\ req'[r].status = 503
    /\ req'[r].log = Append(req[r].log, "NextBackend")

(* C18 as stated: the process deletes no store field and writes only the   *)
(* field of the backend it just dispatched to; while the entry of an       *)
(* endpoint that is not registered holds the strictly lowest latency,      *)
(* every NextBackend call fails with backend-not-found and forwards        *)
(* nothing.                                                                *)
C18_StaleEntriesPersist ==
    [][ProcessStep =>
          /\ DOMAIN store \subseteq DOMAIN store'
          /\ \A f \in DOMAIN store' : Writes(f) => DispatchWrite(f)
          /\ \A r \in Slots :
                NextBackendStep(r) /\ StaleLowest => FailsNotFound(r)]_vars

(* C18 amended: the process deletes no store field and writes a field only *)
(* as the zero entry of a registration or as the latency of the backend it *)
(* just dispatched to; the entry of an endpoint that is not registered is  *)
(* changed by a registration alone; while such an entry holds the strictly *)
(* lowest latency and the registry is not empty, every NextBackend call    *)
(* that reads the store fails with backend-not-found and forwards nothing. *)
C18_StaleEntriesPersistAmended ==
    [][ProcessStep =>
          /\ DOMAIN store \subseteq DOMAIN store'
          /\ \A f \in DOMAIN store' :
                Writes(f) => DispatchWrite(f) \/ RegistrationWrite(f)
          /\ \A f \in DOMAIN store :
                ~Registered(backends, f) /\ store'[f] # store[f] => RegistrationWrite(f)
          /\ \A r \in Slots :
                NextBackendStep(r) /\ backends # <<>> /\ StaleLowest => FailsNotFound(r)]_vars

(* While http://a is registered and holds 10ms, the entry another client   *)
(* wrote for http://b, which is not registered, holds 5ms: a request was   *)
(* answered 503 with "backend not found" and the store is as it was        *)
C18_Witness ==
    \E r \in Slots :
        /\ req[r].pc = "done"
        /\ req[r].status = 503
        /\ req[r].err = ErrNotFound
        /\ req[r].log = <<"NextBackend">>
        /\ extOps = 1
        /\ Len(backends) = 1
        /\ URLString(backends[1].URL) = "http://a"
        /\ DOMAIN store = {"http://a", "http://b"}
        /\ store["http://a"] = "10ms"
        /\ store["http://b"] = "5ms"
        /\ req[r].snapshot = store

----------------------------------------------------------------------------
(* Allow calls that run at the same time, checked under SpecMu *)

(* Slot r runs the refill-check-consume of its call in this step *)
Consumes(r) == req[r].pc = "write" /\ req'[r].pc = "done"

(* The step of slot r is the whole locked part of Allow applied, at the    *)
(* time the call read the clock, to the buckets as they are now            *)
AtomicAt(r) ==
    LET res == AllowKey(KeyOf(req[r].id, req[r].body, req[r].readOk), req[r].loc.now)
    IN  /\ req'[r].allowed = res.allowed
        /\ tokens' = res.tokens
        /\ last' = res.last

(* Every refill-check-consume is atomic: one call at a time holds the      *)
(* lock, the buckets change in no other step, and the step has the outcome *)
(* and the effect of the locked part run alone; the calls take effect in   *)
(* the order of these steps, with clock readings that do not decrease      *)
Linearizable ==
    /\ Cardinality(MutexHolders) <= 1
    /\ \A r \in Slots : Consumes(r) => AtomicAt(r)
    /\ (\A r \in Slots : ~Consumes(r)) => tokens' = tokens /\ last' = last
    /\ \A k \in DOMAIN hlog :
          /\ k \in DOMAIN hlog'
          /\ Len(hlog'[k]) > Len(hlog[k]) => Last(hlog'[k]).t >= Last(hlog[k]).t

(* Of the calls for key k at the instant its bucket was created, at most   *)
(* burst were admitted                                                     *)
BurstAtCreation(k) ==
    Cardinality({i \in 1 .. Len(hlog[k]) : AtCreation(k, i) /\ hlog[k][i].ok}) <= burst

(* C13: calls of Allow that run at the same time, for one key or for       *)
(* several, are linearizable: each refill-check-consume is atomic, so the  *)
(* outcomes and the buckets are those of the calls run one after another;  *)
(* in particular, of the calls for a key with no bucket that arrive with   *)
(* no time between them, never more than burst are admitted.               *)
C13_ConcurrentAllow ==
    [][/\ Linearizable
       /\ \A k \in DOMAIN hlog' : BurstAtCreation(k)']_vars

(* For every burst from 1 on, C13 holds *)
C13_ConcurrentAllowFromOne ==
    [][/\ Linearizable
       /\ burst >= 1 => \A k \in DOMAIN hlog' : BurstAtCreation(k)']_vars

(* Two calls for one key with no bucket ran at the same time with burst 1: *)
(* the second waited for the lock, and one was admitted and one denied     *)
C13_TwoCallsOneKey ==
    /\ burst = 1
    /\ \A r \in Slots : req[r].pc = "done" /\ req[r].id = "n1"
    /\ req["r1"].body = req["r2"].body
    /\ req["r1"].allowed # req["r2"].allowed
    /\ calls = 2

====
